---------------------------- MODULE Spec2Model ----------------------------
(* A state-machine model of calspy's data-access layer (src/database.py)  *)
(* and of the weekly / monthly goal evaluation of its CLI (src/cals.py).  *)
(* The five SQLite tables are sequences of rows in rowid order; every     *)
(* repository call is one atomic action that leaves its result in ret.    *)
EXTENDS Integers, Sequences, FiniteSets, TLC

VARIABLES
    users,        \* table users       (id, username, weight, weightGoal)
    macros,       \* table macros      (id, name, proteinAllocation, ...)
    usermacros,   \* table usermacros  (userID, macroID)
    foods,        \* table foods       (id, name, calories, protein, fat, carbs)
    foodentries,  \* table foodentries (id, foodID, userID, date, time)
    now,          \* the clock: hours since 2024-01-01T00:00Z (UTC)
    tz,           \* the local UTC offset of the process, in hours
    ret           \* what the last call did: outcome, error, value, rows

vars == <<users, macros, usermacros, foods, foodentries, now, tz, ret>>

tables == <<users, macros, usermacros, foods, foodentries>>

-----------------------------------------------------------------------------
(* Python None / SQL NULL is the empty tuple, a present value v is <<v>>.  *)

None == <<>>

Some(v) == <<v>>

\* the set of the elements of a sequence
Range(s) == {s[i] : i \in DOMAIN s}

\* AUTOINCREMENT: one more than the largest id so far (rows are never deleted)
NextId(table) ==
    IF table = <<>> THEN 1
    ELSE (CHOOSE m \in {table[i].id : i \in DOMAIN table} :
              \A i \in DOMAIN table : table[i].id <= m) + 1

-----------------------------------------------------------------------------
(* The result of a call.                                                  *)
(*   outcome  "returned": the call returned normally;                     *)
(*            "raised":   an exception left the call                      *)
(*   error    the exception that occurred inside the call ("" if none);   *)
(*            with outcome "returned" it was caught and only printed      *)
(*   msg      the message the call printed: "success", "error" or ""      *)
(*   value    the value returned (None when the call returns nothing)     *)
(*   rows     the rows returned by a listing                              *)
(*   closed   whether the call closed the connection it was given         *)
(*   at       the time of the call                                        *)

Ret(op, arg, outcome, error, msg, value, rows, closed) ==
    [op |-> op, arg |-> arg, outcome |-> outcome, error |-> error,
     msg |-> msg, value |-> value, rows |-> rows, closed |-> closed,
     at |-> now]

NoRet ==
    [op |-> "", arg |-> "", outcome |-> "returned", error |-> "",
     msg |-> "", value |-> None, rows |-> <<>>, closed |-> FALSE, at |-> 0]

\* the try body ran to its end: success message, connection closed
Done(op, arg) == Ret(op, arg, "returned", "", "success", None, <<>>, TRUE)

\* except sqlite3.Error: the error is printed, the call returns None
Swallowed(op, arg, error) ==
    Ret(op, arg, "returned", error, "error", None, <<>>, TRUE)

\* an exception that is no sqlite3.Error leaves the call
Raised(op, arg, error, closed) ==
    Ret(op, arg, "raised", error, "", None, <<>>, closed)

\* a query returned a value
Returned(op, arg, value, rows) ==
    Ret(op, arg, "returned", "", "", value, rows, TRUE)

-----------------------------------------------------------------------------
(* Inputs.                                                                *)

Usernames == {"alice", "bob"}

FoodNames == {"Banana", "Apple"}

User(username, weight, weightGoal) ==
    [username |-> username, weight |-> weight, weightGoal |-> weightGoal]

Food(name, calories, protein, fat, carbs) ==
    [name |-> name, calories |-> calories, protein |-> protein,
     fat |-> fat, carbs |-> carbs]

Macro(name, protein_pct, fat_pct, carb_pct, cal_goal) ==
    [name |-> name, protein_pct |-> protein_pct, fat_pct |-> fat_pct,
     carb_pct |-> carb_pct, cal_goal |-> cal_goal]

\* register <username> 70 65
NewUsers == {User(u, Some(70), Some(65)) : u \in Usernames}

\* the objects handed to update_user
UserUpdates ==
    {User("alice", Some(80), Some(60)), User("bob", None, Some(65))}

UserCols == {"username", "weight", "weightGoal"}

\* add <name> <calories> <protein> <fat> <carbs>
NewFoods ==
    {Food("Banana", Some(105), Some(1), Some(0), Some(27)),
     Food("Apple", Some(95), Some(0), Some(0), Some(25))}

\* the objects handed to update_food_item; a field left blank at the
\* prompt is None
FoodUpdates ==
    {Food("Banana", Some(110), None, Some(2), Some(27)),
     Food("Apple", None, Some(0), Some(0), Some(30))}

FoodCols == {"name", "calories", "protein", "fat", "carbs"}

\* macro <username> <name> <protein> <fat> <carbs> <cal_goal>
NewMacros ==
    {Macro("bulk", 30, 30, 40, 3000), Macro("cut", 40, 30, 30, 1800)}

\* a macro whose weekly goal, 7 * 15, is the calories of one Banana
LeanMacro == Macro("lean", 40, 30, 30, 15)

TinyMacro == Macro("tiny", 40, 30, 30, 7)

\* the local UTC offsets of the process
TzOffsets == {-5, 0, 10}

-----------------------------------------------------------------------------
(* users                                                                  *)

\* the UNIQUE constraint on users.username
UsernameTakenOff(username) == FALSE

UsernameTaken(username) ==
    \E i \in DOMAIN users : users[i].username = username

\* cur.fetchone() of SELECT id FROM users WHERE username=?
UserRows(username) == SelectSeq(users, LAMBDA r : r.username = username)

HasUser(username) == UserRows(username) # <<>>

\* the id select_specific_user returns when the row exists; with no row
\* fetchone() is None and None[0] raises TypeError, no sqlite3.Error
select_specific_user(username) == UserRows(username)[1].id

create_user_reraise(user) ==
    /\ IF UsernameTaken(user.username)
       THEN /\ users' = users
            /\ ret' = Raised("create_user", user.username, "IntegrityError",
                             TRUE)
       ELSE /\ users' = Append(users,
                   [id |-> NextId(users), username |-> user.username,
                    weight |-> user.weight, weightGoal |-> user.weightGoal])
            /\ ret' = Done("create_user", user.username)
    /\ UNCHANGED <<macros, usermacros, foods, foodentries, now, tz>>

create_user(user) ==
    /\ IF UsernameTaken(user.username)
       THEN /\ users' = users
            /\ ret' = Swallowed("create_user", user.username, "IntegrityError")
       ELSE /\ users' = Append(users,
                   [id |-> NextId(users), username |-> user.username,
                    weight |-> user.weight, weightGoal |-> user.weightGoal])
            /\ ret' = Done("create_user", user.username)
    /\ UNCHANGED <<macros, usermacros, foods, foodentries, now, tz>>

\* SET col = ? for col in cols_to_update, each ? bound to getattr(user, col)
SetUserCols(row, user, cols) ==
    [id |-> row.id,
     username |-> IF "username" \in cols THEN user.username ELSE row.username,
     weight |-> IF "weight" \in cols THEN user.weight ELSE row.weight,
     weightGoal |-> IF "weightGoal" \in cols THEN user.weightGoal
                    ELSE row.weightGoal]

\* an empty cols_to_update gives "UPDATE users SET  WHERE ...", a syntax
\* error (sqlite3.OperationalError); an UPDATE that matches no row is no error
update_user(user, cols) ==
    /\ IF cols = {}
       THEN /\ users' = users
            /\ ret' = Swallowed("update_user", user.username,
                                "OperationalError")
       ELSE /\ users' = [i \in DOMAIN users |->
                            IF users[i].username = user.username
                            THEN SetUserCols(users[i], user, cols)
                            ELSE users[i]]
            /\ ret' = Done("update_user", user.username)
    /\ UNCHANGED <<macros, usermacros, foods, foodentries, now, tz>>

\* what is typed at the prompts of upd --user: nothing, or a number
WeightInputs == {None, Some(80)}

WeightGoalInputs == {None, Some(60)}

\* upd --user: User(user) leaves weight and weightGoal at None; a typed
\* weight is set on user.weight, a typed weight goal on the attribute
\* user.weight_goal, which update_user never reads; cols gets "weight" and
\* "weightGoal" for the prompts that were answered
upd_user(username, cur_weight, weight_goal) ==
    update_user(User(username, cur_weight, None),
                {col \in {"weight"} : cur_weight # None}
                    \cup {col \in {"weightGoal"} : weight_goal # None})

-----------------------------------------------------------------------------
(* foods                                                                  *)

\* the UNIQUE constraint on foods.name
FoodNameTaken(name) == \E i \in DOMAIN foods : foods[i].name = name

FoodRows(food_name) == SelectSeq(foods, LAMBDA r : r.name = food_name)

HasFood(food_name) == FoodRows(food_name) # <<>>

select_food_item(food_name) == FoodRows(food_name)[1].id

\* calories INTEGER NOT NULL
create_food(food) ==
    /\ IF FoodNameTaken(food.name) \/ food.calories = None
       THEN /\ foods' = foods
            /\ ret' = Swallowed("create_food", food.name, "IntegrityError")
       ELSE /\ foods' = Append(foods,
                   [id |-> NextId(foods), name |-> food.name,
                    calories |-> food.calories, protein |-> food.protein,
                    fat |-> food.fat, carbs |-> food.carbs])
            /\ ret' = Done("create_food", food.name)
    /\ UNCHANGED <<users, macros, usermacros, foodentries, now, tz>>

SetFoodColsAll(row, food, cols) ==
    [id |-> row.id, name |-> food.name,
     calories |-> IF food.calories = None THEN row.calories
                  ELSE food.calories,
     protein |-> food.protein, fat |-> food.fat, carbs |-> food.carbs]

SetFoodCols(row, food, cols) ==
    [id |-> row.id,
     name |-> IF "name" \in cols THEN food.name ELSE row.name,
     calories |-> IF "calories" \in cols THEN food.calories ELSE row.calories,
     protein |-> IF "protein" \in cols THEN food.protein ELSE row.protein,
     fat |-> IF "fat" \in cols THEN food.fat ELSE row.fat,
     carbs |-> IF "carbs" \in cols THEN food.carbs ELSE row.carbs]

\* as update_user; writing NULL into calories of a matching row violates
\* NOT NULL and the statement changes nothing
update_food_item(food, cols) ==
    /\ IF cols = {}
       THEN /\ foods' = foods
            /\ ret' = Swallowed("update_food_item", food.name,
                                "OperationalError")
       ELSE IF /\ HasFood(food.name)
               /\ "calories" \in cols
               /\ food.calories = None
       THEN /\ foods' = foods
            /\ ret' = Swallowed("update_food_item", food.name,
                                "IntegrityError")
       ELSE /\ foods' = [i \in DOMAIN foods |->
                            IF foods[i].name = food.name
                            THEN SetFoodCols(foods[i], food, cols)
                            ELSE foods[i]]
            /\ ret' = Done("update_food_item", food.name)
    /\ UNCHANGED <<users, macros, usermacros, foodentries, now, tz>>

\* the foods of the listing command's examples
ListedFoods ==
    {Food("A", Some(500), Some(0), Some(0), Some(0)),
     Food("B", Some(200), Some(0), Some(0), Some(0)),
     Food("C", Some(500), Some(0), Some(0), Some(0))}

ListedUpdates ==
    {Food("A", Some(200), None, None, None),
     Food("B", Some(500), None, None, None)}

InsertDescFirst(row, sorted) ==
    LET before == SelectSeq(sorted,
                      LAMBDA r : r.calories[1] > row.calories[1])
        after == SelectSeq(sorted,
                     LAMBDA r : r.calories[1] <= row.calories[1])
    IN  before \o <<row>> \o after

\* a row scanned later goes behind the rows of at least its calories:
\* rows of equal calories leave the sorter in the order of the scan
InsertDesc(row, sorted) ==
    LET before == SelectSeq(sorted,
                      LAMBDA r : r.calories[1] >= row.calories[1])
        after == SelectSeq(sorted,
                     LAMBDA r : r.calories[1] < row.calories[1])
    IN  before \o <<row>> \o after

RECURSIVE OrderByCaloriesDesc(_)
\* SELECT * FROM foods ORDER BY calories DESC, over the scan in rowid order
OrderByCaloriesDesc(rows) ==
    IF rows = <<>> THEN <<>>
    ELSE InsertDesc(rows[Len(rows)],
                    OrderByCaloriesDesc(SubSeq(rows, 1, Len(rows) - 1)))

get_all_foods ==
    /\ ret' = Returned("get_all_foods", "", None, OrderByCaloriesDesc(foods))
    /\ UNCHANGED <<users, macros, usermacros, foods, foodentries, now, tz>>

-----------------------------------------------------------------------------
(* macros and usermacros                                                  *)

\* the UNIQUE constraint on macros.name
MacroNameTaken(name) == \E i \in DOMAIN macros : macros[i].name = name

\* the user is looked up before the try block: an unknown username raises
\* TypeError out of create_macro and the connection stays open
create_macro_unlinked(username, macro) ==
    /\ IF MacroNameTaken(macro.name)
       THEN /\ UNCHANGED <<macros, usermacros>>
            /\ ret' = Swallowed("create_macro", username, "IntegrityError")
       ELSE /\ macros' = Append(macros,
                   [id |-> NextId(macros), name |-> macro.name,
                    proteinAllocation |-> macro.protein_pct,
                    fatAllocation |-> macro.fat_pct,
                    carbAllocation |-> macro.carb_pct,
                    calGoal |-> macro.cal_goal])
            /\ IF HasUser(username)
               THEN /\ usermacros' = Append(usermacros,
                           [userID |-> select_specific_user(username),
                            macroID |-> NextId(macros)])
                    /\ ret' = Done("create_macro", username)
               ELSE /\ usermacros' = usermacros
                    /\ ret' = Raised("create_macro", username, "TypeError",
                                     TRUE)
    /\ UNCHANGED <<users, foods, foodentries, now, tz>>

create_macro(username, macro) ==
    /\ IF ~HasUser(username)
       THEN /\ UNCHANGED <<macros, usermacros>>
            /\ ret' = Raised("create_macro", username, "TypeError", FALSE)
       ELSE IF MacroNameTaken(macro.name)
       THEN /\ UNCHANGED <<macros, usermacros>>
            /\ ret' = Swallowed("create_macro", username, "IntegrityError")
       ELSE /\ macros' = Append(macros,
                   [id |-> NextId(macros), name |-> macro.name,
                    proteinAllocation |-> macro.protein_pct,
                    fatAllocation |-> macro.fat_pct,
                    carbAllocation |-> macro.carb_pct,
                    calGoal |-> macro.cal_goal])
            /\ usermacros' = Append(usermacros,
                   [userID |-> select_specific_user(username),
                    macroID |-> NextId(macros)])
            /\ ret' = Done("create_macro", username)
    /\ UNCHANGED <<users, foods, foodentries, now, tz>>

\* usermacros JOIN macros ON usermacros.macroID = m.id
\* WHERE usermacros.userID = ?
UserMacroJoin(user_id) ==
    {<<um, m>> \in Range(usermacros) \X Range(macros) :
        um.macroID = m.id /\ um.userID = user_id}

\* ORDER BY usermacros.macroID DESC LIMIT 1
TopMacroAsc(joined) ==
    CHOOSE p \in joined : \A q \in joined : q[1].macroID >= p[1].macroID

TopMacro(joined) ==
    CHOOSE p \in joined : \A q \in joined : q[1].macroID <= p[1].macroID

\* the value get_cal_goal returns for a user who has a macro
CalGoalOf(username) ==
    TopMacro(UserMacroJoin(select_specific_user(username)))[2].calGoal

HasMacro(username) ==
    HasUser(username) /\ UserMacroJoin(select_specific_user(username)) # {}

\* no user: TypeError before the try, the connection stays open;
\* no macro: fetchone() is None, TypeError inside the try, finally closes
get_cal_goal(username) ==
    /\ ret' = IF ~HasUser(username)
              THEN Raised("get_cal_goal", username, "TypeError", FALSE)
              ELSE IF ~HasMacro(username)
              THEN Raised("get_cal_goal", username, "TypeError", TRUE)
              ELSE Returned("get_cal_goal", username,
                            Some(CalGoalOf(username)), <<>>)
    /\ UNCHANGED <<users, macros, usermacros, foods, foodentries, now, tz>>

-----------------------------------------------------------------------------
(* Dates. A date is the triple <<year, month, day>> of its ISO string     *)
(* 'YYYY-MM-DD'; the zero-padded strings compare as the triples do. Days   *)
(* are counted from 2024-01-01 (day 0, a Monday) and stay within 2024.    *)

MonthLengths == <<31, 29, 31, 30, 31, 30, 31, 31, 30, 31, 30, 31>>

RECURSIVE MonthDay(_, _)
\* the <<month, day of the month>> of the n-th day (from 0) counted from
\* the first of month m
MonthDay(n, m) ==
    IF n < MonthLengths[m] THEN <<m, n + 1>>
    ELSE MonthDay(n - MonthLengths[m], m + 1)

\* strftime('%Y-%m-%d') / date.isoformat() of a day
IsoDate(day) == <<2024, MonthDay(day, 1)[1], MonthDay(day, 1)[2]>>

\* a <= b on the strings
DateLE(a, b) ==
    \/ a[1] < b[1]
    \/ a[1] = b[1] /\ a[2] < b[2]
    \/ a[1] = b[1] /\ a[2] = b[2] /\ a[3] <= b[3]

\* x BETWEEN lo AND hi
Between(x, lo, hi) == DateLE(lo, x) /\ DateLE(x, hi)

\* SQLite's day of the week, 0 = Sunday
Weekday(day) == (day + 1) % 7

\* the modifier 'weekday 0': forward to the next Sunday, a Sunday stays
NextSunday(day) == day + ((7 - Weekday(day)) % 7)

\* the modifier 'start of month'
StartOfMonth(day) == day - (IsoDate(day)[3] - 1)

\* DATE('now', 'weekday 0', '-6 days') AND DATE('now', 'weekday 0')
WeekWindow(day) == <<IsoDate(NextSunday(day) - 6), IsoDate(NextSunday(day))>>

\* DATE('now', 'start of month') AND
\* DATE('now', 'start of month', '+1 month', '-1 day')
MonthWindow(day) ==
    <<IsoDate(StartOfMonth(day)),
      IsoDate(StartOfMonth(day) + MonthLengths[IsoDate(day)[2]] - 1)>>

\* SQLite's 'now', CURRENT_DATE and CURRENT_TIME are UTC
UtcDay == now \div 24

CurrentDate == IsoDate(UtcDay)

CurrentTime == now % 24

\* datetime.date.today().isoformat() is the local date
Today == IsoDate((now + tz) \div 24)

\* [today, today]
DayWindow == <<Today, Today>>

\* the clock starts at 2024-08-31T02:00Z, a Saturday and the last day of
\* the month, and runs for at most MaxDays days
StartHour == 243 * 24 + 2

MaxDays == 2

Tick(hours) ==
    /\ now + hours <= StartHour + 24 * MaxDays
    /\ now' = now + hours
    /\ UNCHANGED <<users, macros, usermacros, foods, foodentries, tz, ret>>

-----------------------------------------------------------------------------
(* foodentries                                                            *)

MaxEntries == 3

\* the dates given to entry --date
AdjustDates == {<<2024, 1, 15>>}

\* both names are looked up before the try block: an unknown name raises
\* TypeError out of the call and the connection stays open
InsertEntryUnchecked(op, username, food_name, date) ==
    /\ Len(foodentries) < MaxEntries
    /\ foodentries' = Append(foodentries,
           [id |-> NextId(foodentries),
            foodID |-> IF HasFood(food_name)
                       THEN select_food_item(food_name) ELSE 0,
            userID |-> IF HasUser(username)
                       THEN select_specific_user(username) ELSE 0,
            date |-> date, time |-> CurrentTime])
    /\ ret' = Done(op, username)
    /\ UNCHANGED <<users, macros, usermacros, foods, now, tz>>

InsertEntry(op, username, food_name, date) ==
    /\ Len(foodentries) < MaxEntries
    /\ IF ~HasUser(username) \/ ~HasFood(food_name)
       THEN /\ foodentries' = foodentries
            /\ ret' = Raised(op, username, "TypeError", FALSE)
       ELSE /\ foodentries' = Append(foodentries,
                   [id |-> NextId(foodentries),
                    foodID |-> select_food_item(food_name),
                    userID |-> select_specific_user(username),
                    date |-> date, time |-> CurrentTime])
            /\ ret' = Done(op, username)
    /\ UNCHANGED <<users, macros, usermacros, foods, now, tz>>

\* INSERT INTO foodentries(foodID, userID): date DEFAULT CURRENT_DATE
create_entry(username, food_name) ==
    InsertEntry("create_entry", username, food_name, CurrentDate)

\* INSERT INTO foodentries(foodID, userID, date)
adjust_entry(username, food_name, date) ==
    InsertEntry("adjust_entry", username, food_name, date)

\* foodentries JOIN users ON foodentries.userID = users.id
\*             JOIN foods ON foodentries.foodID = foods.id
\* WHERE users.id = ? AND date BETWEEN lo AND hi, in rowid order
EntriesIn(user_id, window) ==
    SelectSeq(foodentries, LAMBDA e :
        /\ \E u \in Range(users) : u.id = e.userID
        /\ \E f \in Range(foods) : f.id = e.foodID
        /\ e.userID = user_id
        /\ Between(e.date, window[1], window[2]))

UserById(id) == CHOOSE u \in Range(users) : u.id = id

FoodById(id) == CHOOSE f \in Range(foods) : f.id = id

\* SELECT users.username, foods.name, foods.calories, foodentries.<col>
EntryRows(entries, col) ==
    [i \in DOMAIN entries |->
        <<UserById(entries[i].userID).username,
          FoodById(entries[i].foodID).name,
          FoodById(entries[i].foodID).calories[1],
          entries[i][col]>>]

RECURSIVE SumCalories(_)
SumCalories(entries) ==
    IF entries = <<>> THEN 0
    ELSE FoodById(Head(entries).foodID).calories[1]
             + SumCalories(Tail(entries))

\* SELECT SUM(foods.calories): NULL over no rows
TotalCaloriesOrZero(entries) == Some(SumCalories(entries))

TotalCalories(entries) ==
    IF entries = <<>> THEN None ELSE Some(SumCalories(entries))

\* a listing or a total: the user is looked up before the try block
Query(op, username, value, rows) ==
    /\ ret' = IF ~HasUser(username)
              THEN Raised(op, username, "TypeError", FALSE)
              ELSE Returned(op, username, value, rows)
    /\ UNCHANGED <<users, macros, usermacros, foods, foodentries, now, tz>>

CurrentEntries(username) ==
    EntriesIn(select_specific_user(username), DayWindow)

WeeklyEntries(username) ==
    EntriesIn(select_specific_user(username), WeekWindow(UtcDay))

MonthlyEntries(username) ==
    EntriesIn(select_specific_user(username), MonthWindow(UtcDay))

show_current_entry(username) ==
    Query("show_current_entry", username, None,
          EntryRows(CurrentEntries(username), "time"))

show_weekly_entries(username) ==
    Query("show_weekly_entries", username, None,
          EntryRows(WeeklyEntries(username), "date"))

get_total_calories_today(username) ==
    Query("get_total_calories_today", username,
          TotalCalories(CurrentEntries(username)), <<>>)

get_weekly_calories(username) ==
    Query("get_weekly_calories", username,
          TotalCalories(WeeklyEntries(username)), <<>>)

get_monthly_calories(username) ==
    Query("get_monthly_calories", username,
          TotalCalories(MonthlyEntries(username)), <<>>)

-----------------------------------------------------------------------------
(* The weekly and monthly commands of src/cals.py: the listing, the       *)
(* total, the goal, cal_goal *= multiplier, then total > cal_goal.        *)
(* Comparing None with an int raises TypeError.                           *)

WeekMultiplier == 7

MonthMultiplier == 30

EvaluateAtLeast(op, username, total, multiplier) ==
    /\ ret' = IF ~HasUser(username)
              THEN Raised(op, username, "TypeError", FALSE)
              ELSE IF ~HasMacro(username)
              THEN Raised(op, username, "TypeError", TRUE)
              ELSE IF total = None
              THEN Raised(op, username, "TypeError", TRUE)
              ELSE Ret(op, username, "returned", "",
                       IF total[1] >= CalGoalOf(username) * multiplier
                       THEN "exceeded" ELSE "within",
                       total, <<>>, TRUE)
    /\ UNCHANGED <<users, macros, usermacros, foods, foodentries, now, tz>>

Evaluate(op, username, total, multiplier) ==
    /\ ret' = IF ~HasUser(username)
              THEN Raised(op, username, "TypeError", FALSE)
              ELSE IF ~HasMacro(username)
              THEN Raised(op, username, "TypeError", TRUE)
              ELSE IF total = None
              THEN Raised(op, username, "TypeError", TRUE)
              ELSE Ret(op, username, "returned", "",
                       IF total[1] > CalGoalOf(username) * multiplier
                       THEN "exceeded" ELSE "within",
                       total, <<>>, TRUE)
    /\ UNCHANGED <<users, macros, usermacros, foods, foodentries, now, tz>>

weekly(username) ==
    Evaluate("weekly", username,
             IF HasUser(username) THEN TotalCalories(WeeklyEntries(username))
             ELSE None,
             WeekMultiplier)

monthly(username) ==
    Evaluate("monthly", username,
             IF HasUser(username) THEN TotalCalories(MonthlyEntries(username))
             ELSE None,
             MonthMultiplier)

-----------------------------------------------------------------------------
(* The repository specification: users, foods and macros.                 *)

InitTables ==
    /\ users = <<>>
    /\ macros = <<>>
    /\ usermacros = <<>>
    /\ foods = <<>>
    /\ foodentries = <<>>
    /\ ret = NoRet

Init ==
    /\ InitTables
    /\ now = StartHour
    /\ tz = 0

Next ==
    \/ \E user \in NewUsers : create_user(user)
    \/ \E user \in UserUpdates, cols \in SUBSET UserCols :
           update_user(user, cols)
    \/ \E food \in NewFoods : create_food(food)
    \/ \E food \in FoodUpdates, cols \in SUBSET FoodCols :
           update_food_item(food, cols)
    \/ \E username \in Usernames, macro \in NewMacros :
           create_macro(username, macro)
    \/ \E username \in Usernames : get_cal_goal(username)

Spec == Init /\ [][Next]_vars

(* The update specification: the calls of the upd command, over the       *)
(* tables as they are after alice and bob registered, Banana and Apple    *)
(* were added and alice created the macros bulk and cut.                  *)

InitUpdate ==
    /\ now = StartHour
    /\ tz = 0
    /\ users = <<[id |-> 1, username |-> "alice",
                  weight |-> Some(70), weightGoal |-> Some(65)],
                 [id |-> 2, username |-> "bob",
                  weight |-> Some(70), weightGoal |-> Some(65)]>>
    /\ foods = <<[id |-> 1, name |-> "Banana", calories |-> Some(105),
                  protein |-> Some(1), fat |-> Some(0), carbs |-> Some(27)],
                 [id |-> 2, name |-> "Apple", calories |-> Some(95),
                  protein |-> Some(0), fat |-> Some(0), carbs |-> Some(25)]>>
    /\ macros = <<[id |-> 1, name |-> "bulk", proteinAllocation |-> 30,
                   fatAllocation |-> 30, carbAllocation |-> 40,
                   calGoal |-> 3000],
                  [id |-> 2, name |-> "cut", proteinAllocation |-> 40,
                   fatAllocation |-> 30, carbAllocation |-> 30,
                   calGoal |-> 1800]>>
    /\ usermacros = <<[userID |-> 1, macroID |-> 1],
                      [userID |-> 1, macroID |-> 2]>>
    /\ foodentries = <<>>
    /\ ret = Done("create_macro", "alice")

NextUpdate ==
    \/ \E user \in UserUpdates, cols \in SUBSET UserCols :
           update_user(user, cols)
    \/ \E food \in FoodUpdates, cols \in SUBSET FoodCols :
           update_food_item(food, cols)

SpecUpdate == InitUpdate /\ [][NextUpdate]_vars

(* The weekly-listing specification: two users log one food, today or    *)
(* for a given date, and list their week as the days pass (UTC).          *)

NextWeek ==
    \/ \E user \in NewUsers : create_user(user)
    \/ \E food \in {f \in NewFoods : f.name = "Banana"} : create_food(food)
    \/ \E username \in Usernames : create_entry(username, "Banana")
    \/ \E username \in Usernames, date \in AdjustDates :
           adjust_entry(username, "Banana", date)
    \/ \E username \in Usernames : show_weekly_entries(username)
    \/ Tick(24)

SpecWeek == Init /\ [][NextWeek]_vars

(* The totals specification: two users log two foods and alice, who has   *)
(* a macro, asks for her totals and her goal evaluation as the days pass  *)
(* (UTC).                                                                 *)

NextTotals ==
    \/ \E user \in NewUsers : create_user(user)
    \/ \E food \in NewFoods : create_food(food)
    \/ create_macro("alice", LeanMacro)
    \/ \E food_name \in FoodNames : create_entry("alice", food_name)
    \/ create_entry("bob", "Apple")
    \/ get_total_calories_today("alice")
    \/ get_weekly_calories("alice")
    \/ get_monthly_calories("alice")
    \/ weekly("alice")
    \/ monthly("alice")
    \/ Tick(24)

SpecTotals == Init /\ [][NextTotals]_vars

(* The goal specification: alice logs Banana (105 calories) against the   *)
(* macros lean (15 a day) and tiny (7 a day) and asks for her evaluation  *)
(* at the end of August and in September.                                 *)

NextGoal ==
    \/ \E user \in {u \in NewUsers : u.username = "alice"} : create_user(user)
    \/ \E food \in {f \in NewFoods : f.name = "Banana"} : create_food(food)
    \/ \E macro \in {LeanMacro, TinyMacro} : create_macro("alice", macro)
    \/ create_entry("alice", "Banana")
    \/ weekly("alice")
    \/ monthly("alice")
    \/ Tick(24)

SpecGoal == Init /\ [][NextGoal]_vars

(* The diet specification: alice logs Banana and asks for her total of    *)
(* today while the food is edited with the upd command.                   *)

NextDiet ==
    \/ \E user \in {u \in NewUsers : u.username = "alice"} : create_user(user)
    \/ \E food \in {f \in NewFoods : f.name = "Banana"} : create_food(food)
    \/ create_entry("alice", "Banana")
    \/ \E food \in FoodUpdates, cols \in SUBSET FoodCols :
           update_food_item(food, cols)
    \/ get_total_calories_today("alice")

SpecDiet == Init /\ [][NextDiet]_vars

(* The listing specification: the foods A, B and C are added in any order *)
(* and listed while the calories of A and B are edited.                   *)

NextFoods ==
    \/ \E food \in ListedFoods : create_food(food)
    \/ \E food \in ListedUpdates : update_food_item(food, {"calories"})
    \/ get_all_foods

SpecFoods == Init /\ [][NextFoods]_vars

(* The profile specification: users register and answer the prompts of   *)
(* upd --user.                                                            *)

NextProfile ==
    \/ \E user \in NewUsers : create_user(user)
    \/ \E username \in Usernames, cur_weight \in WeightInputs,
          weight_goal \in WeightGoalInputs :
           upd_user(username, cur_weight, weight_goal)

SpecProfile == Init /\ [][NextProfile]_vars

(* The clock specification: one user logs a food and lists today, at      *)
(* 02:00 and 14:00 UTC, in a process west of, at or east of Greenwich.    *)

InitClock ==
    /\ InitTables
    /\ now = StartHour
    /\ tz \in TzOffsets

NextClock ==
    \/ \E user \in {u \in NewUsers : u.username = "alice"} : create_user(user)
    \/ \E food \in {f \in NewFoods : f.name = "Banana"} : create_food(food)
    \/ create_entry("alice", "Banana")
    \/ show_current_entry("alice")
    \/ get_total_calories_today("alice")
    \/ Tick(12)

SpecClock == InitClock /\ [][NextClock]_vars

-----------------------------------------------------------------------------
(* Claims about the repository layer, checked under Spec.                 *)

NamesUnique ==
    /\ \A i, j \in DOMAIN users :
           i # j => users[i].username # users[j].username
    /\ \A i, j \in DOMAIN foods : i # j => foods[i].name # foods[j].name
    /\ \A i, j \in DOMAIN macros : i # j => macros[i].name # macros[j].name

HasMacroName(name) == \E m \in Range(macros) : m.name = name

\* (every create call leaves its own name in ret.op, which is tested first)
DuplicateCreateIsNoOp ==
    /\ ret'.op = "create_user" =>
           \A user \in NewUsers :
               (create_user(user) /\ HasUser(user.username))
                   => UNCHANGED <<users, foods, macros, usermacros>>
    /\ ret'.op = "create_food" =>
           \A food \in NewFoods :
               (create_food(food) /\ HasFood(food.name))
                   => UNCHANGED <<users, foods, macros, usermacros>>
    /\ ret'.op = "create_macro" =>
           \A username \in Usernames, macro \in NewMacros :
               (create_macro(username, macro) /\ HasMacroName(macro.name))
                   => UNCHANGED <<users, foods, macros, usermacros>>

\* C1: in every reachable state no two users share a username, no two
\* foods a name and no two macros a name, and a create call whose name
\* already exists leaves users, foods, macros and usermacros as they were.
C1_UniqueNames == []NamesUnique /\ [][DuplicateCreateIsNoOp]_vars

\* both names of every table are taken and a create_user was just refused
C1_Witness ==
    /\ Len(users) = 2 /\ Len(foods) = 2 /\ Len(macros) = 2
    /\ ret.op = "create_user"
    /\ ret.error = "IntegrityError"

\* C2 as stated: the duplicate-key error of a second create_user with the
\* same username reaches the caller as an error; the call does not return
\* normally after swallowing it.
C2_ErrorSurfaced ==
    (ret.op = "create_user" /\ ret.error = "IntegrityError")
        => ret.outcome = "raised"

\* C2 as amended: a second create_user with a username that already exists
\* hits the duplicate-key error (sqlite3.IntegrityError) inside the call;
\* create_user catches it, prints an error message, closes the connection
\* and returns None normally, and the users table is unchanged.
C2_ErrorSwallowed ==
    [][ret'.op = "create_user" =>
           \A user \in NewUsers :
               (create_user(user) /\ HasUser(user.username))
                   => /\ ret'.error = "IntegrityError"
                      /\ ret'.outcome = "returned"
                      /\ ret'.msg = "error"
                      /\ ret'.value = None
                      /\ ret'.closed
                      /\ users' = users]_vars

\* a second create_user("alice") has just been refused
C2_Witness ==
    /\ ret.op = "create_user"
    /\ ret.arg = "alice"
    /\ ret.error = "IntegrityError"
    /\ Len(UserRows("alice")) = 1

\* the columns of row i outside cols, and every row of another name, are
\* the same before and after
RowsFramed(old, new, key, name, allCols, cols) ==
    /\ DOMAIN new = DOMAIN old
    /\ \A i \in DOMAIN old :
           /\ old[i][key] # name => new[i] = old[i]
           /\ \A col \in (allCols \cup {"id"}) \ cols : new[i][col] = old[i][col]

\* (every update call leaves its own name and the name of its row in ret,
\* which are tested first)
PartialUpdateFrame ==
    /\ ret'.op = "update_food_item" =>
           \A food \in FoodUpdates, cols \in SUBSET FoodCols :
               (ret'.arg = food.name /\ update_food_item(food, cols))
                   => /\ RowsFramed(foods, foods', "name", food.name,
                                    FoodCols, cols)
                      /\ UNCHANGED <<users, macros, usermacros, foodentries>>
    /\ ret'.op = "update_user" =>
           \A user \in UserUpdates, cols \in SUBSET UserCols :
               (ret'.arg = user.username /\ update_user(user, cols))
                   => /\ RowsFramed(users, users', "username", user.username,
                                    UserCols, cols)
                      /\ UNCHANGED <<foods, macros, usermacros, foodentries>>

\* C3: update_food_item and update_user leave every column that is not in
\* cols_to_update, every other row of the table and every other table
\* unchanged.
C3_PartialUpdate == [][PartialUpdateFrame]_vars

\* Banana's calories were updated and its protein was not, Apple is
\* untouched, alice's weight was updated and her weightGoal was not
C3_Witness ==
    /\ ret.op = "update_food_item"
    /\ ret.msg = "success"
    /\ \E f \in Range(foods) :
           f.name = "Banana" /\ f.calories = Some(110) /\ f.protein = Some(1)
    /\ \E f \in Range(foods) : f.name = "Apple" /\ f.calories = Some(95)
    /\ \E u \in Range(users) :
           u.username = "alice" /\ u.weight = Some(80)
               /\ u.weightGoal = Some(65)
    /\ Len(macros) = 2

\* C4: update_user for a username that is not in users, and
\* update_food_item for a name that is not in foods, fail with an error
\* and do not report success.
C4_UpdateOfAbsentFails ==
    /\ (ret.op = "update_user" /\ ~HasUser(ret.arg))
           => (ret.error # "" /\ ret.msg # "success")
    /\ (ret.op = "update_food_item" /\ ~HasFood(ret.arg))
           => (ret.error # "" /\ ret.msg # "success")

\* the macro of the usermacros row inserted last for the user
LatestMacroOf(username) ==
    LET uid == select_specific_user(username)
        mine == {i \in DOMAIN usermacros : usermacros[i].userID = uid}
        last == CHOOSE i \in mine : \A j \in mine : j <= i
    IN  CHOOSE m \in Range(macros) : m.id = usermacros[last].macroID

\* C5: get_cal_goal(u) returns the calGoal of the macro most recently
\* created for u, whatever macros were created for other users.
C5_LatestMacroWins ==
    (/\ ret.op = "get_cal_goal"
     /\ HasUser(ret.arg)
     /\ \E um \in Range(usermacros) :
            um.userID = select_specific_user(ret.arg))
        => /\ ret.outcome = "returned"
           /\ ret.value = Some(LatestMacroOf(ret.arg).calGoal)

\* bulk (3000) then cut (1800) were created for the same user, and
\* get_cal_goal returned 1800
C5_Witness ==
    /\ ret.op = "get_cal_goal"
    /\ Len(macros) = 2 /\ Len(usermacros) = 2
    /\ macros[1].name = "bulk" /\ macros[2].name = "cut"
    /\ usermacros[1].userID = usermacros[2].userID
    /\ ret.value = Some(1800)

-----------------------------------------------------------------------------
(* Claims about the diary: the windows, the listings, the totals and the  *)
(* goal evaluation. A result in ret is that of a call made at the present *)
(* instant when ret.at = now.                                             *)

\* the week of a day as the documentation has it: from the Sunday on or
\* before the day to the Saturday after that Sunday
SundayToSaturday(day) ==
    <<IsoDate(day - Weekday(day)), IsoDate(day - Weekday(day) + 6)>>

\* C6: the week window used by show_weekly_entries and get_weekly_calories
\* starts on the Sunday on or before the current date, ends on the
\* following Saturday and contains the current date.
C6_WeekIsSundayToSaturday ==
    (ret.at = now /\ ret.op \in {"show_weekly_entries", "get_weekly_calories"})
        => /\ WeekWindow(UtcDay) = SundayToSaturday(UtcDay)
           /\ Between(CurrentDate, WeekWindow(UtcDay)[1],
                      WeekWindow(UtcDay)[2])

\* C7: show_weekly_entries(u) returns exactly the entries of u whose date
\* lies in the current week (Sunday to Saturday), so no entry dated before
\* the current week and no entry of another user.
C7_WeeklyListingIsCurrentWeek ==
    (/\ ret.at = now
     /\ ret.op = "show_weekly_entries"
     /\ ret.outcome = "returned")
        => ret.rows =
               EntryRows(EntriesIn(select_specific_user(ret.arg),
                                   SundayToSaturday(UtcDay)), "date")

\* C8: an entry created by create_entry is stored with the current local
\* date, and the day-window queries of the same user at the same instant
\* include it, whatever the clock time and the local UTC offset.
C8_NewEntryIsOfToday ==
    (/\ ret.at = now
     /\ ret.op = "create_entry"
     /\ ret.msg = "success")
        => LET e == foodentries[Len(foodentries)]
           IN  /\ e.date = Today
               /\ e \in Range(CurrentEntries(ret.arg))
               /\ TotalCalories(CurrentEntries(ret.arg)) # None

\* the window of each total
WindowOf(op) ==
    CASE op = "get_total_calories_today" -> DayWindow
      [] op = "get_weekly_calories" -> WeekWindow(UtcDay)
      [] op = "get_monthly_calories" -> MonthWindow(UtcDay)

\* the rows of foodentries of a user dated in a window
RowsIn(username, window) ==
    {i \in DOMAIN foodentries :
        /\ foodentries[i].userID = select_specific_user(username)
        /\ DateLE(window[1], foodentries[i].date)
        /\ DateLE(foodentries[i].date, window[2])}

RECURSIVE CaloriesOfRows(_)
\* the calories of the foods of a set of rows, a row at a time
CaloriesOfRows(rows) ==
    IF rows = {} THEN 0
    ELSE LET i == CHOOSE j \in rows : TRUE
             f == CHOOSE g \in Range(foods) : g.id = foodentries[i].foodID
         IN  f.calories[1] + CaloriesOfRows(rows \ {i})

\* C9: for an existing user the three totals return None, not 0, when the
\* user has no entry dated inside the window of the query, and otherwise
\* the sum of the calories of the foods of exactly those entries, an
\* entry at a time.
C9_TotalIsSumOrNone ==
    (/\ ret.at = now
     /\ ret.op \in {"get_total_calories_today", "get_weekly_calories",
                    "get_monthly_calories"}
     /\ HasUser(ret.arg))
        => LET rows == RowsIn(ret.arg, WindowOf(ret.op))
           IN  /\ ret.outcome = "returned"
               /\ rows = {} => ret.value = None
               /\ rows # {} => ret.value = Some(CaloriesOfRows(rows))

\* alice logged Banana twice today while bob logged an Apple, and her
\* total of today is 210
C9_Witness ==
    /\ ret.at = now
    /\ ret.op = "get_total_calories_today"
    /\ ret.arg = "alice"
    /\ ret.value = Some(210)
    /\ Len(foodentries) = 3
    /\ \E e \in Range(foodentries) : e.userID # select_specific_user("alice")

\* C10: when the user has a macro but no entry in the current week or
\* month, so that the total is absent, the weekly and monthly evaluation
\* classifies the outcome as within goal and does not end in an error.
C10_AbsentTotalIsWithinGoal ==
    (/\ ret.at = now
     /\ ret.op \in {"weekly", "monthly"}
     /\ HasMacro(ret.arg)
     /\ RowsIn(ret.arg, IF ret.op = "weekly" THEN WeekWindow(UtcDay)
                        ELSE MonthWindow(UtcDay)) = {})
        => /\ ret.outcome = "returned"
           /\ ret.msg = "within"

\* C11: for a total that is not absent the weekly evaluation reports
\* within goal exactly when total <= 7 * calGoal and the monthly one
\* exactly when total <= 30 * calGoal, exceeded otherwise, whatever the
\* length of the month.
C11_WithinIffAtMostGoal ==
    (/\ ret.at = now
     /\ ret.op \in {"weekly", "monthly"}
     /\ HasMacro(ret.arg)
     /\ RowsIn(ret.arg, IF ret.op = "weekly" THEN WeekWindow(UtcDay)
                        ELSE MonthWindow(UtcDay)) # {})
        => LET total == CaloriesOfRows(
                            RowsIn(ret.arg,
                                   IF ret.op = "weekly" THEN WeekWindow(UtcDay)
                                   ELSE MonthWindow(UtcDay)))
               goal == LatestMacroOf(ret.arg).calGoal
               times == IF ret.op = "weekly" THEN 7 ELSE 30
           IN  /\ ret.outcome = "returned"
               /\ ret.msg \in {"within", "exceeded"}
               /\ ret.msg = "within" <=> total <= times * goal

\* in September, a month of 30 days, two Bananas of the month make 210
\* against the goal 7 of tiny: within the monthly goal at 210 = 30 * 7
C11_Witness ==
    /\ ret.at = now
    /\ ret.op = "monthly"
    /\ CurrentDate[2] = 9
    /\ ret.value = Some(210)
    /\ LatestMacroOf("alice").calGoal = 7
    /\ ret.msg = "within"

\* every foodentries row references a user of users and a food of foods
EntriesResolve ==
    \A e \in Range(foodentries) :
        /\ \E u \in Range(users) : u.id = e.userID
        /\ \E f \in Range(foods) : f.id = e.foodID

\* a create_entry or adjust_entry whose username or food name does not
\* resolve fails and inserts nothing
UnresolvedEntryFails ==
    ret'.op \in {"create_entry", "adjust_entry"} =>
        \A username \in Usernames, food_name \in FoodNames :
            (/\ ret'.arg = username
             /\ ~HasUser(username) \/ ~HasFood(food_name)
             /\ \/ create_entry(username, food_name)
                \/ \E date \in AdjustDates :
                       adjust_entry(username, food_name, date))
                => /\ ret'.outcome = "raised"
                   /\ foodentries' = foodentries

\* C12: in every reachable state each foodentries row references an
\* existing user and an existing food, and create_entry and adjust_entry
\* with a username or a food name that does not resolve fail and insert
\* no row.
C12_EntriesReferToRows == []EntriesResolve /\ [][UnresolvedEntryFails]_vars

\* alice has logged an entry and bob, who is not registered, was refused
C12_Witness ==
    /\ ret.at = now
    /\ ret.op = "adjust_entry"
    /\ ret.arg = "bob"
    /\ ret.outcome = "raised"
    /\ ~HasUser("bob")
    /\ Len(foodentries) = 1

\* C13: every repository and aggregation call closes the connection it
\* was given on every exit path, whether it returns or raises, also when
\* the username or the food name does not resolve.
C13_ConnectionClosed ==
    ret.op \in {"create_entry", "adjust_entry", "create_macro",
                "get_cal_goal", "show_current_entry", "show_weekly_entries",
                "get_total_calories_today", "get_weekly_calories",
                "get_monthly_calories"}
        => ret.closed

\* a food that an entry references keeps its calories, protein, fat and
\* carbs in the next state
ReferencedFoodKept ==
    \A i \in DOMAIN foods :
        (\E e \in Range(foodentries) : e.foodID = foods[i].id)
            => \A col \in {"calories", "protein", "fat", "carbs"} :
                   foods'[i][col] = foods[i][col]

\* C14: once a foodentries row references a food, no update_food_item
\* call changes the calories, protein, fat or carbs of that food, so the
\* total of the entries already logged does not change.
C14_ReferencedFoodIsFrozen == [][ReferencedFoodKept]_vars

MacrosAssociated ==
    \A m \in Range(macros) :
        \E um \in Range(usermacros) :
            /\ um.macroID = m.id
            /\ \E u \in Range(users) : u.id = um.userID

\* a create_macro whose macro name exists or whose username does not
\* resolve does not report success and adds no row to either table
FailedCreateMacroAddsNothing ==
    ret'.op = "create_macro" =>
        \A username \in Usernames, macro \in NewMacros :
            (/\ ret'.arg = username
             /\ ~HasUser(username) \/ MacroNameTaken(macro.name)
             /\ create_macro(username, macro))
                => /\ ret'.msg # "success"
                   /\ macros' = macros
                   /\ usermacros' = usermacros

\* a create_macro that succeeds adds one row to each table
CreateMacroAddsBoth ==
    (ret'.op = "create_macro" /\ ret'.msg = "success")
        => /\ Len(macros') = Len(macros) + 1
           /\ Len(usermacros') = Len(usermacros) + 1

\* C16: create_macro inserts the macro and its usermacros association as
\* one operation: every macros row has an association to an existing
\* user, and a create_macro that fails, because the macro name exists or
\* the username does not resolve, adds neither a macros row nor a
\* usermacros row.
C16_MacroWithAssociation ==
    /\ []MacrosAssociated
    /\ [][FailedCreateMacroAddsNothing /\ CreateMacroAddsBoth]_vars

\* alice has both macros and bob's create_macro of an existing name was
\* refused
C16_Witness ==
    /\ ret.op = "create_macro"
    /\ ret.arg = "bob"
    /\ HasUser("bob")
    /\ HasUser("alice")
    /\ ret.error = "IntegrityError"
    /\ Len(macros) = 2
    /\ Len(usermacros) = 2
    /\ \A um \in Range(usermacros) : um.userID = select_specific_user("alice")

\* after upd --user of a registered user the stored weight is the weight
\* that was typed and the stored weightGoal the weight goal that was typed
TypedValuesStored ==
    ret'.op = "update_user" =>
        \A username \in Usernames, cur_weight \in WeightInputs,
           weight_goal \in WeightGoalInputs :
            (/\ ret'.arg = username
             /\ HasUser(username)
             /\ upd_user(username, cur_weight, weight_goal))
                => \A i \in DOMAIN users' :
                       users'[i].username = username
                           => /\ cur_weight # None
                                  => users'[i].weight = cur_weight
                              /\ weight_goal # None
                                  => users'[i].weightGoal = weight_goal

\* C17: the upd command for a user stores every value that was supplied:
\* a non-empty weight goal is the stored weightGoal after update_user and
\* a non-empty weight is the stored weight.
C17_UpdStoresTypedValues == [][TypedValuesStored]_vars

=============================================================================
